---------------------------- MODULE Spec2Model ----------------------------
(***************************************************************************)
(* The useCrm hook (src/app/(main)/crm/hooks/useCrm.ts) as a state machine. *)
(*                                                                         *)
(* The variables are the hook's useState cells, the dependency arrays React *)
(* keeps for its two effects, the pending debounce timer and the network   *)
(* requests in flight.  A step is one event (a call of an exposed          *)
(* operation, a timer callback, the continuation of an awaited fetch)      *)
(* with the render it causes; the passive effects of that render are the   *)
(* step RunEffects, which React runs before it handles any other event.    *)
(***************************************************************************)
EXTENDS Integers, Sequences, FiniteSets, Bags, TLC

(***************************************************************************)
(* Bounds of the model.                                                    *)
(***************************************************************************)
\* pages a server response may name
MaxPage == 2
\* list requests in flight at once
MaxListReqs == 2
\* detail requests in flight at once
MaxDetailReqs == 2
\* grant-membership requests in flight at once
MaxGrantReqs == 1
\* DELETE requests in flight at once
MaxDeleteReqs == 1
\* cap of the remount counter
MaxPanelKey == 3
\* requests of all kinds in flight at once, when every operation is in play
MaxInFlight == 1
\* milliseconds of one step of the clock
TickMs == 500

(***************************************************************************)
(* Program constants.                                                      *)
(***************************************************************************)
\* setTimeout(..., 500)
DebounceMs == 500
\* useState(0) of panelKey
InitialPanelKey == 0
\* useState({ currentPage: 1, ... })
InitialPage == 1
\* useState({ ..., totalPages: 1, ... })
InitialTotalPages == 1
\* useState({ ..., totalCustomers: 0 })
InitialTotalCustomers == 0

(***************************************************************************)
(* Values.                                                                 *)
(***************************************************************************)
Terms == {"", "a"}
CustomerIds == {"a", "b"}
Barcodes == {"", "BC123"}
CrmCustomer == [_id : CustomerIds, membershipBarcode : Barcodes]
\* null of a CrmCustomer | null cell
NullCustomer == [_id |-> "null", membershipBarcode |-> "null"]
\* null of the string | null cell pageError
NullError == "null"
TotalCounts == {21}
PaginationInfo ==
  [currentPage : 1..MaxPage, totalPages : 1..MaxPage, totalCustomers : TotalCounts]
ServerMessages == {"", "Server error"}
NetworkErrors == {"Failed to fetch"}

\* the pages of rows a list response may carry
CustomerPages ==
  { <<[_id |-> "b", membershipBarcode |-> "BC123"]>>,
    <<[_id |-> "a", membershipBarcode |-> ""], [_id |-> "b", membershipBarcode |-> ""]>> }

\* a || b of JavaScript on strings: the empty string is falsy
OrElse(a, b) == IF a # "" THEN a ELSE b

\* the index i of sequence s removed
RemoveAt(s, i) == SubSeq(s, 1, i - 1) \o SubSeq(s, i + 1, Len(s))

VARIABLES
  customers, pagination, isLoading, pageError,
  searchTerm, debouncedSearchTerm,
  selectedCustomer, isDetailPanelOpen, isAddEditModalOpen, editingCustomer,
  panelKey, isMembershipUpdating,
  deps, timer,
  listReqs, detailReqs, deleteReqs, grantReqs,
  lastOp, issued, toast, burst, lastView

listVars == <<customers, pagination, isLoading, pageError>>
searchVars == <<searchTerm, debouncedSearchTerm>>
panelVars == <<selectedCustomer, isDetailPanelOpen, panelKey, isMembershipUpdating>>
modalVars == <<isAddEditModalOpen, editingCustomer>>
reactVars == <<deps, timer>>
netVars == <<listReqs, detailReqs, deleteReqs, grantReqs>>
histVars == <<lastOp, issued, toast, burst, lastView>>
vars == <<listVars, searchVars, panelVars, modalVars, reactVars, netVars, histVars>>

NoTimer == [pending |-> FALSE, left |-> 0, value |-> ""]
NoToast == [kind |-> "none", text |-> ""]
Op(name, key, n) == [op |-> name, key |-> key, n |-> n]

Init ==
  /\ customers = <<>>
  /\ pagination = [currentPage |-> InitialPage, totalPages |-> InitialTotalPages,
                   totalCustomers |-> InitialTotalCustomers]
  /\ isLoading = TRUE
  /\ pageError = NullError
  /\ searchTerm = ""
  /\ debouncedSearchTerm = ""
  /\ selectedCustomer = NullCustomer
  /\ isDetailPanelOpen = FALSE
  /\ isAddEditModalOpen = FALSE
  /\ editingCustomer = NullCustomer
  /\ panelKey = InitialPanelKey
  /\ isMembershipUpdating = FALSE
  /\ deps = [mounted |-> FALSE, searchTerm |-> "", debouncedSearchTerm |-> "",
             currentPage |-> InitialPage]
  /\ timer = NoTimer
  /\ listReqs = EmptyBag
  /\ detailReqs = <<>>
  /\ deleteReqs = <<>>
  /\ grantReqs = <<>>
  /\ lastOp = Op("mount", "", 0)
  /\ issued = <<>>
  /\ toast = NoToast
  /\ burst = 0
  /\ lastView = [id |-> "null", switched |-> FALSE]

(***************************************************************************)
(* The effects.                                                            *)
(***************************************************************************)
\* the dependency array [searchTerm] differs from the one of the last run
DebounceDepsChanged == ~deps.mounted \/ deps.searchTerm # searchTerm

\* the dependency array without pagination.currentPage
FetchDepsWithoutPage == ~deps.mounted \/ deps.debouncedSearchTerm # debouncedSearchTerm

\* the dependency array [fetchCustomers, pagination.currentPage,
\* debouncedSearchTerm] differs; fetchCustomers is a useCallback on
\* [debouncedSearchTerm]
FetchDepsChanged ==
  \/ ~deps.mounted
  \/ deps.debouncedSearchTerm # debouncedSearchTerm
  \/ deps.currentPage # pagination.currentPage

EffectsPending == DebounceDepsChanged \/ FetchDepsChanged

\* the guard without its second disjunct
ShouldFetchOnlyCommitted == debouncedSearchTerm # ""

\* the guard as a test that nothing is being typed
ShouldFetchWhenSettled == debouncedSearchTerm = searchTerm

\* if (debouncedSearchTerm || searchTerm === '')
ShouldFetch == debouncedSearchTerm # "" \/ searchTerm = ""

\* the request of fetchCustomers(page): the URL's page and search
ListRequest(page) == [page |-> page, search |-> debouncedSearchTerm]

\* the callback keeps the text of the render before
StartTimerStale == [pending |-> TRUE, left |-> DebounceMs, value |-> deps.searchTerm]

\* a pending timer is left to run: no clearTimeout in the cleanup
StartTimerNoCancel ==
  IF timer.pending THEN timer
  ELSE [pending |-> TRUE, left |-> DebounceMs, value |-> searchTerm]

\* the timer of the debounce effect
StartTimer == [pending |-> TRUE, left |-> DebounceMs, value |-> searchTerm]

RunEffects ==
  /\ EffectsPending
  /\ timer' = IF DebounceDepsChanged THEN StartTimer ELSE timer
  /\ IF FetchDepsChanged /\ ShouldFetch
       THEN /\ isLoading' = TRUE
            /\ pageError' = NullError
            /\ listReqs' = listReqs (+) SetToBag({ListRequest(pagination.currentPage)})
            /\ issued' = Append(issued, ListRequest(pagination.currentPage))
       ELSE UNCHANGED <<isLoading, pageError, listReqs, issued>>
  /\ deps' = [mounted |-> TRUE, searchTerm |-> searchTerm,
              debouncedSearchTerm |-> debouncedSearchTerm,
              currentPage |-> pagination.currentPage]
  /\ UNCHANGED <<customers, pagination, searchVars, panelVars, modalVars,
                 detailReqs, deleteReqs, grantReqs, lastOp, toast, burst, lastView>>

\* an event is handled once the effects of the last render have run
Ready == ~EffectsPending

(***************************************************************************)
(* Search and the debounce timer.                                          *)
(***************************************************************************)
SetSearchTerm(v) ==
  /\ Ready
  /\ v # searchTerm
  /\ searchTerm' = v
  /\ burst' = IF burst = 0 THEN 1 ELSE 2
  /\ lastOp' = Op("setSearchTerm", "", 0)
  /\ issued' = <<>>
  /\ toast' = NoToast
  /\ UNCHANGED <<listVars, debouncedSearchTerm, panelVars, modalVars, reactVars, netVars,
                 lastView>>

Tick ==
  /\ Ready
  /\ timer.pending
  /\ timer.left > 0
  /\ timer' = [timer EXCEPT !.left = IF timer.left > TickMs THEN timer.left - TickMs ELSE 0]
  /\ UNCHANGED <<listVars, searchVars, panelVars, modalVars, deps, netVars, histVars>>

\* the commit without the reset of the page
KeepPage(prev) == prev

\* setPagination(prev => ({ ...prev, currentPage: 1 }))
ResetPage(prev) == [prev EXCEPT !.currentPage = 1]

\* the callback of setTimeout
TimerFire ==
  /\ Ready
  /\ timer.pending
  /\ timer.left = 0
  /\ BagCardinality(listReqs) < MaxListReqs
  /\ debouncedSearchTerm' = timer.value
  /\ pagination' = ResetPage(pagination)
  /\ timer' = NoTimer
  /\ burst' = 0
  /\ lastOp' = Op("timer", "", burst)
  /\ issued' = <<>>
  /\ toast' = NoToast
  /\ UNCHANGED <<customers, isLoading, pageError, searchTerm, panelVars, modalVars,
                 deps, netVars, lastView>>

(***************************************************************************)
(* Pagination and the list fetch.                                          *)
(***************************************************************************)
\* the range check without its lower bound
GoToPageAcceptsBelow(pageNumber) == pageNumber <= pagination.totalPages

\* the range check without its upper bound
GoToPageAcceptsAbove(pageNumber) == pageNumber >= 1

\* if (pageNumber >= 1 && pageNumber <= pagination.totalPages)
GoToPageAccepts(pageNumber) == pageNumber >= 1 /\ pageNumber <= pagination.totalPages

\* setPagination(prev => ({ ...prev, currentPage: pageNumber }))
SetPage(prev, pageNumber) == [prev EXCEPT !.currentPage = pageNumber]

goToPage(pageNumber) ==
  /\ Ready
  /\ BagCardinality(listReqs) < MaxListReqs
  /\ pagination' = IF GoToPageAccepts(pageNumber) THEN SetPage(pagination, pageNumber)
                   ELSE pagination
  /\ lastOp' = Op("goToPage", "", pageNumber)
  /\ issued' = <<>>
  /\ toast' = NoToast
  /\ UNCHANGED <<customers, isLoading, pageError, searchVars, panelVars, modalVars,
                 reactVars, netVars, burst, lastView>>

\* fetchCustomers(pagination.currentPage) of the last render
refreshData ==
  /\ Ready
  /\ BagCardinality(listReqs) < MaxListReqs
  /\ isLoading' = TRUE
  /\ pageError' = NullError
  /\ listReqs' = listReqs (+) SetToBag({ListRequest(pagination.currentPage)})
  /\ lastOp' = Op("refreshData", "", 0)
  /\ issued' = <<ListRequest(pagination.currentPage)>>
  /\ toast' = NoToast
  /\ UNCHANGED <<customers, pagination, searchVars, panelVars, modalVars, reactVars,
                 detailReqs, deleteReqs, grantReqs, burst, lastView>>

\* what the awaited fetch and response.json() of fetchCustomers yield
ListFailures ==
  [kind : {"json"}, ok : BOOLEAN, success : BOOLEAN, message : ServerMessages,
   customers : {<<>>}, pagination : {ResetPage(CHOOSE p \in PaginationInfo : TRUE)}]
ListResponses ==
  {r \in ListFailures : ~(r.ok /\ r.success)}
  \cup [kind : {"json"}, ok : {TRUE}, success : {TRUE}, message : {""},
        customers : CustomerPages, pagination : PaginationInfo]
  \cup [kind : {"error"}, ok : {FALSE}, success : {FALSE}, message : NetworkErrors,
        customers : {<<>>}, pagination : {ResetPage(CHOOSE p \in PaginationInfo : TRUE)}]

\* every response taken for a failure
ListAlwaysThrows(r) == TRUE

\* the fetch or response.json() rejects, or
\* if (!response.ok || !data.success) throw
ListThrows(r) == r.kind = "error" \/ ~r.ok \/ ~r.success

\* err.message: new Error(data.message || 'Failed to fetch customers'), or the
\* message of the rejection
ListErrorMessage(r) ==
  IF r.kind = "error" THEN r.message ELSE OrElse(r.message, "Failed to fetch customers")

\* the continuation of fetchCustomers after its awaits, for the request req
fetchCustomersSettles(req, r) ==
  /\ Ready
  /\ BagIn(req, listReqs)
  /\ IF ListThrows(r)
       THEN /\ pageError' = ListErrorMessage(r)
            /\ UNCHANGED <<customers, pagination>>
       ELSE /\ customers' = r.customers
            /\ pagination' = r.pagination
            /\ UNCHANGED pageError
  /\ isLoading' = FALSE
  /\ listReqs' = listReqs (-) SetToBag({req})
  /\ lastOp' = Op(IF ListThrows(r) THEN "listFailed" ELSE "listLoaded", req.search, req.page)
  /\ issued' = <<>>
  /\ toast' = NoToast
  /\ UNCHANGED <<searchVars, panelVars, modalVars, reactVars,
                 detailReqs, deleteReqs, grantReqs, burst, lastView>>

NextList ==
  \/ RunEffects
  \/ \E v \in Terms : SetSearchTerm(v)
  \/ Tick
  \/ TimerFire
  \/ \E n \in 0..(MaxPage + 1) : goToPage(n)
  \/ refreshData
  \/ \E req \in BagToSet(listReqs), r \in ListResponses : fetchCustomersSettles(req, r)

SpecList == Init /\ [][NextList]_vars

\* a response arrives that leaves the page where it is: a failure, or the
\* page the hook is on
ListSettlesInPlace ==
  \E req \in BagToSet(listReqs), r \in ListResponses :
    /\ ListThrows(r) \/ r.pagination.currentPage = pagination.currentPage
    /\ fetchCustomersSettles(req, r)

\* the event loop runs the effects of a render, time passes and a timer that
\* is due fires; responses that leave the page where it is keep arriving, so
\* that refetches do not take the room of the timer's commit for ever
SpecListLive ==
  /\ SpecList
  /\ WF_vars(RunEffects)
  /\ SF_vars(Tick)
  /\ SF_vars(TimerFire)
  /\ SF_vars(ListSettlesInPlace)

(***************************************************************************)
(* The detail panel.                                                       *)
(***************************************************************************)
\* the comparison without the test of the open flag
ViewTogglesWhenClosed(customer) == selectedCustomer._id = customer._id

\* if (isDetailPanelOpen && selectedCustomer?._id === customer._id)
ViewToggles(customer) == isDetailPanelOpen /\ selectedCustomer._id = customer._id

\* the counter set back instead of incremented
RestartKey(prevKey) == 1

\* setPanelKey(prevKey => prevKey + 1)
BumpKey(prevKey) == prevKey + 1

\* the panel shows a customer, and it is another one than `customer`
OpenOnAnother(customer) ==
  isDetailPanelOpen /\ selectedCustomer # NullCustomer /\ selectedCustomer._id # customer._id

\* remount events still to come fit the cap of the counter
KeyRoom == panelKey + Len(grantReqs) < MaxPanelKey

handleViewCustomerDetails(customer) ==
  /\ Ready
  /\ IF ViewToggles(customer)
       THEN /\ isDetailPanelOpen' = FALSE
            /\ lastOp' = Op("viewToggle", customer._id, 0)
            /\ UNCHANGED <<panelKey, selectedCustomer, detailReqs, lastView>>
       ELSE /\ KeyRoom
            /\ Len(detailReqs) < MaxDetailReqs
            /\ panelKey' = BumpKey(panelKey)
            /\ isDetailPanelOpen' = TRUE
            /\ selectedCustomer' = NullCustomer
            /\ detailReqs' = Append([i \in 1..Len(detailReqs) |->
                                       [detailReqs[i] EXCEPT !.latest = FALSE]],
                                    [id |-> customer._id, latest |-> TRUE])
            /\ lastOp' = Op("viewOpen", customer._id, 0)
            /\ lastView' = [id |-> customer._id, switched |-> OpenOnAnother(customer)]
  /\ issued' = <<>>
  /\ toast' = NoToast
  /\ UNCHANGED <<listVars, searchVars, isMembershipUpdating, modalVars, reactVars,
                 listReqs, deleteReqs, grantReqs, burst>>

\* what the awaited fetch and response.json() of fetchCustomerDetails yield for
\* the customer customerId
DetailResponses(customerId) ==
  [kind : {"json"}, ok : {TRUE}, success : {TRUE}, message : {""},
   customer : {c \in CrmCustomer : c._id = customerId}]
  \cup {r \in [kind : {"json"}, ok : BOOLEAN, success : BOOLEAN, message : ServerMessages,
               customer : {NullCustomer}] : ~(r.ok /\ r.success)}
  \cup [kind : {"error"}, ok : {FALSE}, success : {FALSE}, message : NetworkErrors,
        customer : {NullCustomer}]

\* if (!response.ok || !apiResponse.success) throw, or the awaits reject
DetailThrows(r) == r.kind = "error" \/ ~r.ok \/ ~r.success

\* error.message in fetchCustomerDetails
DetailErrorMessage(r) ==
  IF r.kind = "error" THEN r.message ELSE OrElse(r.message, "Failed to fetch details")

\* the value fetchCustomerDetails resolves to
DetailedData(r) == IF DetailThrows(r) THEN NullCustomer ELSE r.customer

\* the continuation of handleViewCustomerDetails after its await, for the
\* request at i
fetchCustomerDetailsSettles(i, r) ==
  /\ Ready
  /\ i \in 1..Len(detailReqs)
  /\ selectedCustomer' = DetailedData(r)
  /\ toast' = IF DetailThrows(r)
                THEN [kind |-> "error", text |-> "Error loading details: " \o DetailErrorMessage(r)]
                ELSE NoToast
  /\ detailReqs' = RemoveAt(detailReqs, i)
  /\ lastOp' = Op(IF DetailThrows(r) THEN "detailFailed" ELSE "detailLoaded",
                  detailReqs[i].id, IF detailReqs[i].latest THEN 1 ELSE 0)
  /\ issued' = <<>>
  /\ UNCHANGED <<listVars, searchVars, isDetailPanelOpen, panelKey, isMembershipUpdating,
                 modalVars, reactVars, listReqs, deleteReqs, grantReqs, burst, lastView>>

\* the setter the hook returns
setIsDetailPanelOpen(open) ==
  /\ Ready
  /\ open # isDetailPanelOpen
  /\ isDetailPanelOpen' = open
  /\ lastOp' = Op("setIsDetailPanelOpen", "", 0)
  /\ issued' = <<>>
  /\ toast' = NoToast
  /\ UNCHANGED <<listVars, searchVars, selectedCustomer, panelKey, isMembershipUpdating,
                 modalVars, reactVars, netVars, burst, lastView>>

(***************************************************************************)
(* Granting a membership.                                                  *)
(***************************************************************************)
\* a call in flight is the watched one
Watched == \E i \in 1..Len(grantReqs) : grantReqs[i].watched

\* the request carries `watched` for the call whose completion is followed, one
\* call at a time
handleGrantMembership(customerId, barcode) ==
  /\ Ready
  /\ Len(grantReqs) < MaxGrantReqs
  /\ KeyRoom
  /\ isMembershipUpdating' = TRUE
  /\ \E w \in BOOLEAN :
       /\ w => ~Watched
       /\ grantReqs' = Append(grantReqs,
                              [id |-> customerId, barcode |-> barcode, watched |-> w])
  /\ lastOp' = Op("grant", customerId, 0)
  /\ issued' = <<>>
  /\ toast' = NoToast
  /\ UNCHANGED <<listVars, searchVars, selectedCustomer, isDetailPanelOpen, panelKey,
                 modalVars, reactVars, listReqs, detailReqs, deleteReqs, burst, lastView>>

\* what the awaited fetch and response.json() of handleGrantMembership yield
GrantResponses(customerId) ==
  [kind : {"json"}, success : {TRUE}, message : {""},
   customer : {c \in CrmCustomer : c._id = customerId}]
  \cup [kind : {"json"}, success : BOOLEAN, message : ServerMessages,
        customer : {NullCustomer}]
  \cup [kind : {"error"}, success : {FALSE}, message : NetworkErrors,
        customer : {NullCustomer}]

\* if (!result.success || !result.customer) throw, or the awaits reject
GrantThrows(r) == r.kind = "error" \/ ~r.success \/ r.customer = NullCustomer

\* err.message in handleGrantMembership
GrantErrorMessage(r) ==
  IF r.kind = "error" THEN r.message ELSE OrElse(r.message, "Failed to grant membership.")

\* every row replaced, whatever its identifier
PatchAllRows(prev, customerId, freshCustomerData) ==
  [i \in 1..Len(prev) |-> freshCustomerData]

\* prev.map(c => (c._id === customerId ? freshCustomerData : c))
PatchRows(prev, customerId, freshCustomerData) ==
  [i \in 1..Len(prev) |-> IF prev[i]._id = customerId THEN freshCustomerData ELSE prev[i]]

\* the flag cleared at the end of the try block only
UpdatingAfterTry(threw) == threw

\* finally { setIsMembershipUpdating(false) }
UpdatingAfterGrant(threw) == FALSE

\* the continuation of handleGrantMembership after its awaits, for the
\* request at i
grantMembershipSettles(i, r) ==
  /\ Ready
  /\ i \in 1..Len(grantReqs)
  /\ IF GrantThrows(r)
       THEN /\ toast' = [kind |-> "error", text |-> GrantErrorMessage(r)]
            /\ UNCHANGED <<selectedCustomer, customers, panelKey>>
       ELSE /\ toast' = [kind |-> "success",
                         text |-> "Membership granted successfully with barcode: "
                                  \o r.customer.membershipBarcode]
            /\ selectedCustomer' = r.customer
            /\ customers' = PatchRows(customers, grantReqs[i].id, r.customer)
            /\ panelKey' = BumpKey(panelKey)
  /\ isMembershipUpdating' = UpdatingAfterGrant(GrantThrows(r))
  /\ grantReqs' = RemoveAt(grantReqs, i)
  /\ lastOp' = Op(IF GrantThrows(r) THEN "grantFailed" ELSE "grantDone", grantReqs[i].id, 0)
  /\ issued' = <<>>
  /\ UNCHANGED <<pagination, isLoading, pageError, searchVars, isDetailPanelOpen,
                 modalVars, reactVars, listReqs, detailReqs, deleteReqs, burst, lastView>>

NextPanel ==
  \/ RunEffects
  \/ \E c \in CrmCustomer : handleViewCustomerDetails(c)
  \/ \E i \in 1..Len(detailReqs) :
       \E r \in DetailResponses(detailReqs[i].id) : fetchCustomerDetailsSettles(i, r)
  \/ \E open \in BOOLEAN : setIsDetailPanelOpen(open)
  \/ \E id \in CustomerIds, barcode \in Barcodes \ {""} : handleGrantMembership(id, barcode)
  \/ \E i \in 1..Len(grantReqs) :
       \E r \in GrantResponses(grantReqs[i].id) : grantMembershipSettles(i, r)

SpecPanel == Init /\ [][NextPanel]_vars

\* the response of the watched call arrives and its continuation runs
WatchedGrantSettles ==
  \E i \in 1..Len(grantReqs) : \E r \in GrantResponses(grantReqs[i].id) :
    grantReqs[i].watched /\ grantMembershipSettles(i, r)

\* the event loop runs the effects of a render and the continuation of a
\* call whose response has arrived
SpecPanelLive == SpecPanel /\ WF_vars(RunEffects) /\ WF_vars(WatchedGrantSettles)


(***************************************************************************)
(* Deactivating a customer.                                                *)
(***************************************************************************)
CustomerNames == {"Alice"}

\* confirm(...) answers `confirmed`; the DELETE in flight keeps the refreshData
\* of the render that made the call: its pagination.currentPage and the
\* debouncedSearchTerm of its fetchCustomers
handleDeleteCustomer(customerId, customerName, confirmed) ==
  /\ Ready
  /\ IF confirmed
       THEN /\ Len(deleteReqs) < MaxDeleteReqs
            /\ deleteReqs' = Append(deleteReqs,
                 [id |-> customerId, page |-> pagination.currentPage,
                  search |-> debouncedSearchTerm])
       ELSE UNCHANGED deleteReqs
  /\ lastOp' = Op(IF confirmed THEN "delete" ELSE "deleteDeclined", customerId, 0)
  /\ issued' = <<>>
  /\ toast' = NoToast
  /\ UNCHANGED <<listVars, searchVars, panelVars, modalVars, reactVars,
                 listReqs, detailReqs, grantReqs, burst, lastView>>

\* what the awaited fetch and response.json() of handleDeleteCustomer yield
DeleteResponses ==
  [kind : {"json"}, ok : BOOLEAN, success : BOOLEAN, message : ServerMessages]
  \cup [kind : {"error"}, ok : {FALSE}, success : {FALSE}, message : NetworkErrors]

\* the test without the HTTP status
DeleteThrowsOnBodyOnly(r) == r.kind = "error" \/ ~r.success

\* if (!response.ok || !result.success) throw, or the awaits reject
DeleteThrows(r) == r.kind = "error" \/ ~r.ok \/ ~r.success

\* err.message in handleDeleteCustomer
DeleteErrorMessage(r) ==
  IF r.kind = "error" THEN r.message ELSE OrElse(r.message, "Failed to deactivate customer.")

\* the request of the refreshData() the DELETE at d kept
RefreshRequest(d) == [page |-> d.page, search |-> d.search]

\* the continuation of handleDeleteCustomer after its awaits, for the DELETE
\* at i
deleteCustomerSettles(i, r) ==
  /\ Ready
  /\ i \in 1..Len(deleteReqs)
  /\ IF DeleteThrows(r)
       THEN /\ toast' = [kind |-> "error", text |-> DeleteErrorMessage(r)]
            /\ issued' = <<>>
            /\ UNCHANGED <<isLoading, pageError, listReqs>>
       ELSE /\ BagCardinality(listReqs) < MaxListReqs
            /\ toast' = [kind |-> "success", text |-> "Customer deactivated successfully."]
            /\ isLoading' = TRUE
            /\ pageError' = NullError
            /\ listReqs' = listReqs (+) SetToBag({RefreshRequest(deleteReqs[i])})
            /\ issued' = <<RefreshRequest(deleteReqs[i])>>
  /\ deleteReqs' = RemoveAt(deleteReqs, i)
  /\ lastOp' = Op(IF DeleteThrows(r) THEN "deleteFailed" ELSE "deleteDone", deleteReqs[i].id, 0)
  /\ UNCHANGED <<customers, pagination, searchVars, panelVars, modalVars, reactVars,
                 detailReqs, grantReqs, burst, lastView>>

(***************************************************************************)
(* The add/edit modal.                                                     *)
(***************************************************************************)
handleOpenAddModal ==
  /\ Ready
  /\ editingCustomer' = NullCustomer
  /\ isAddEditModalOpen' = TRUE
  /\ lastOp' = Op("openAdd", "", 0)
  /\ issued' = <<>>
  /\ toast' = NoToast
  /\ UNCHANGED <<listVars, searchVars, panelVars, reactVars, netVars, burst, lastView>>

handleOpenEditModal(customer) ==
  /\ Ready
  /\ editingCustomer' = customer
  /\ isAddEditModalOpen' = TRUE
  /\ lastOp' = Op("openEdit", customer._id, 0)
  /\ issued' = <<>>
  /\ toast' = NoToast
  /\ UNCHANGED <<listVars, searchVars, panelVars, reactVars, netVars, burst, lastView>>

handleCloseAddEditModal ==
  /\ Ready
  /\ isAddEditModalOpen' = FALSE
  /\ editingCustomer' = NullCustomer
  /\ lastOp' = Op("closeModal", "", 0)
  /\ issued' = <<>>
  /\ toast' = NoToast
  /\ UNCHANGED <<listVars, searchVars, panelVars, reactVars, netVars, burst, lastView>>

NextDelete ==
  \/ \E id \in CustomerIds, name \in CustomerNames, confirmed \in BOOLEAN :
       handleDeleteCustomer(id, name, confirmed)
  \/ \E i \in 1..Len(deleteReqs), r \in DeleteResponses : deleteCustomerSettles(i, r)

NextModal ==
  \/ handleOpenAddModal
  \/ \E c \in CrmCustomer : handleOpenEditModal(c)
  \/ handleCloseAddEditModal

Next == NextList \/ NextPanel \/ NextDelete \/ NextModal

Spec == Init /\ [][Next]_vars

(***************************************************************************)
(* The list and the deactivation together.                                 *)
(***************************************************************************)
NextDeactivate ==
  \/ RunEffects
  \/ \E v \in Terms : SetSearchTerm(v)
  \/ Tick
  \/ TimerFire
  \/ \E n \in 1..MaxPage : goToPage(n)
  \/ \E req \in BagToSet(listReqs), r \in ListResponses : fetchCustomersSettles(req, r)
  \/ NextDelete

SpecDelete == Init /\ [][NextDeactivate]_vars

(***************************************************************************)
(* Every operation of the hook, called as the screen calls it: on a row of *)
(* the list, on the customer the panel shows, with one response that       *)
(* succeeds and one that fails for each kind of request.                   *)
(***************************************************************************)
InFlight == BagCardinality(listReqs) + Len(detailReqs) + Len(grantReqs) + Len(deleteReqs)

\* the rows the table shows
Rows == {customers[k] : k \in 1..Len(customers)}

FirstPageResponses ==
  {r \in ListResponses : \/ r.kind = "error"
                         \/ /\ ~ListThrows(r)
                            /\ Len(r.customers) = 2
                            /\ r.pagination.currentPage = 1
                            /\ r.pagination.totalPages = MaxPage}
PlainDetailResponses(customerId) ==
  {r \in DetailResponses(customerId) : r.kind = "error" \/ ~DetailThrows(r)}
PlainGrantResponses(customerId) ==
  {r \in GrantResponses(customerId) : r.kind = "error" \/ ~GrantThrows(r)}
PlainDeleteResponses ==
  {r \in DeleteResponses : r.kind = "error" \/ ~DeleteThrows(r)}

NextAll ==
  \/ RunEffects
  \/ \E v \in Terms : SetSearchTerm(v)
  \/ Tick
  \/ \E req \in BagToSet(listReqs), r \in FirstPageResponses : fetchCustomersSettles(req, r)
  \/ \E i \in 1..Len(detailReqs) :
       \E r \in PlainDetailResponses(detailReqs[i].id) : fetchCustomerDetailsSettles(i, r)
  \/ \E i \in 1..Len(grantReqs) :
       \E r \in PlainGrantResponses(grantReqs[i].id) : grantMembershipSettles(i, r)
  \/ \E i \in 1..Len(deleteReqs), r \in PlainDeleteResponses : deleteCustomerSettles(i, r)
  \/ \E open \in BOOLEAN : setIsDetailPanelOpen(open)
  \/ handleOpenAddModal
  \/ \E c \in Rows : handleOpenEditModal(c)
  \/ handleCloseAddEditModal
  \/ /\ InFlight < MaxInFlight
     /\ \/ TimerFire
        \/ \E n \in 1..MaxPage : goToPage(n)
        \/ refreshData
        \/ \E c \in Rows : handleViewCustomerDetails(c)
        \/ /\ selectedCustomer # NullCustomer
           /\ \E barcode \in Barcodes \ {""} :
                handleGrantMembership(selectedCustomer._id, barcode)
        \/ \E c \in Rows, name \in CustomerNames, confirmed \in BOOLEAN :
             handleDeleteCustomer(c._id, name, confirmed)

SpecAll == Init /\ [][NextAll]_vars

(***************************************************************************)
(* The list and the membership grant together.                             *)
(***************************************************************************)
NextRows ==
  \/ RunEffects
  \/ refreshData
  \/ \E req \in BagToSet(listReqs), r \in ListResponses : fetchCustomersSettles(req, r)
  \/ \E id \in CustomerIds, barcode \in Barcodes \ {""} : handleGrantMembership(id, barcode)
  \/ \E i \in 1..Len(grantReqs) :
       \E r \in GrantResponses(grantReqs[i].id) : grantMembershipSettles(i, r)

SpecRows == Init /\ [][NextRows]_vars

(***************************************************************************)
(* Steps, as the properties below name them.                               *)
(***************************************************************************)
\* the step runs the effects of the last render
EffectsStep == deps' # deps

\* the step is the clock's
ClockStep == timer.pending /\ timer'.pending /\ timer' # timer

\* the step handles the event lastOp' names
EventStep(name) == lastOp'.op = name /\ ~EffectsStep /\ ~ClockStep /\ vars' # vars

\* the dependencies of the fetch effect as React compares them
FetchDepsDiffer ==
  \/ deps.debouncedSearchTerm # debouncedSearchTerm
  \/ deps.currentPage # pagination.currentPage

\* the list request for the page and the committed term of the state
CurrentRequest == [page |-> pagination.currentPage, search |-> debouncedSearchTerm]

(***************************************************************************)
(* C1 (as stated): a burst of changes of the live search text, each within *)
(* the 500 ms of the one before, commits only its final value and results  *)
(* in exactly one list refetch, issued when the timer fires.               *)
(***************************************************************************)
C1_ExactlyOneRefetch ==
  (lastOp.op = "timer" /\ lastOp.n >= 1) =>
     /\ debouncedSearchTerm = searchTerm
     /\ ~EffectsPending => issued = <<[page |-> 1, search |-> debouncedSearchTerm]>>

(***************************************************************************)
(* C1 (amended): only the timer commits, and it commits the live text as   *)
(* it is when it fires (the final value of the burst, never an             *)
(* intermediate one); the commit results in at most one list refetch:      *)
(* exactly one, for page 1 and the new term, when it changed the committed *)
(* term or the page was not 1, and none when it changed neither.           *)
(***************************************************************************)
C1_FinalValueOneRefetchIfChanged ==
  [][ /\ debouncedSearchTerm' # debouncedSearchTerm =>
           EventStep("timer") /\ debouncedSearchTerm' = searchTerm
      /\ EventStep("timer") =>
           /\ debouncedSearchTerm' = searchTerm
           /\ searchTerm' = searchTerm
           /\ issued' = <<>>
           /\ listReqs' = listReqs
           /\ (deps'.debouncedSearchTerm # debouncedSearchTerm'
                 \/ deps'.currentPage # pagination'.currentPage)
              <=> (debouncedSearchTerm # searchTerm \/ pagination.currentPage # 1)
      /\ (lastOp.op = "timer" /\ EffectsStep) =>
           /\ issued' = <<[page |-> 1, search |-> debouncedSearchTerm]>>
           /\ listReqs' = listReqs (+) SetToBag({[page |-> 1, search |-> debouncedSearchTerm]})
    ]_vars

\* a burst of two changes was committed and its one refetch issued
C1_Witness ==
  /\ lastOp = Op("timer", "", 2)
  /\ ~EffectsPending
  /\ debouncedSearchTerm = "a"
  /\ issued = <<[page |-> 1, search |-> "a"]>>

(***************************************************************************)
(* C2 (as stated): goToPage(n) with 1 <= n <= totalPages leaves            *)
(* currentPage = n and results in exactly one list request, for page n and *)
(* the committed search term.                                              *)
(***************************************************************************)
C2_OneRefetchForEveryPage ==
  (lastOp.op = "goToPage" /\ lastOp.n >= 1 /\ lastOp.n <= pagination.totalPages) =>
     /\ pagination.currentPage = lastOp.n
     /\ ~EffectsPending => issued = <<[page |-> lastOp.n, search |-> debouncedSearchTerm]>>

(***************************************************************************)
(* C2 (amended): goToPage(n) with 1 <= n <= totalPages sets currentPage to *)
(* n and nothing else; it results in exactly one list request, for page n  *)
(* and the committed term, when n differs from the page before and the     *)
(* committed term is non-empty or the live text is empty, and in no        *)
(* request otherwise.                                                      *)
(***************************************************************************)
C2_GoToPageRefetchesOnChange ==
  [][ /\ (EventStep("goToPage") /\ lastOp'.n >= 1 /\ lastOp'.n <= pagination.totalPages) =>
           /\ pagination' = [pagination EXCEPT !.currentPage = lastOp'.n]
           /\ issued' = <<>>
           /\ listReqs' = listReqs
           /\ (deps'.debouncedSearchTerm # debouncedSearchTerm'
                 \/ deps'.currentPage # pagination'.currentPage)
              <=> (lastOp'.n # pagination.currentPage)
      /\ (lastOp.op = "goToPage" /\ EffectsStep) =>
           IF debouncedSearchTerm # "" \/ searchTerm = ""
             THEN /\ issued' = <<CurrentRequest>>
                  /\ listReqs' = listReqs (+) SetToBag({CurrentRequest})
                  /\ pagination.currentPage = lastOp.n
             ELSE issued' = <<>> /\ listReqs' = listReqs
    ]_vars

\* goToPage(2) moved from page 1 and its one request was issued
C2_Witness ==
  /\ lastOp = Op("goToPage", "", 2)
  /\ ~EffectsPending
  /\ pagination.currentPage = 2
  /\ issued = <<[page |-> 2, search |-> debouncedSearchTerm]>>

(***************************************************************************)
(* C3: goToPage(n) with n < 1 or n > totalPages changes no state field and *)
(* issues no list request.                                                 *)
(***************************************************************************)
C3_GoToPageOutOfRangeNoOp ==
  [][ (EventStep("goToPage") /\ (lastOp'.n < 1 \/ lastOp'.n > pagination.totalPages)) =>
        /\ UNCHANGED <<listVars, searchVars, panelVars, modalVars, reactVars, netVars>>
        /\ issued' = <<>>
        /\ ~EffectsPending'
    ]_vars

\* goToPage was called with a page past the last one, on a page other than 1
C3_Witness ==
  /\ lastOp.op = "goToPage"
  /\ lastOp.n > pagination.totalPages
  /\ pagination.totalPages > 1
  /\ pagination.currentPage # lastOp.n

(***************************************************************************)
(* C4 (as stated): in every reachable state 1 <= currentPage <= totalPages *)
(* (whenever totalPages >= 1).                                             *)
(***************************************************************************)
PageInRange(p) == p.totalPages >= 1 => (1 <= p.currentPage /\ p.currentPage <= p.totalPages)

C4_PageAlwaysInRange == PageInRange(pagination)

(***************************************************************************)
(* C4 (amended): every goToPage call that changes the page and every       *)
(* search commit leave 1 <= currentPage <= totalPages (whenever            *)
(* totalPages >= 1); only a successful list response, whose pagination is  *)
(* stored as the server sent it, can put currentPage outside that range,   *)
(* where it stays until the next accepted goToPage, commit or response.    *)
(***************************************************************************)
C4_NavigationKeepsPageInRange ==
  [][ /\ pagination' # pagination =>
           \/ EventStep("listLoaded")
           \/ PageInRange(pagination')
      /\ EventStep("timer") => PageInRange(pagination')
    ]_vars

\* a search commit brought a page the server had put out of range back to 1
C4_Witness ==
  /\ lastOp.op = "timer"
  /\ deps.currentPage > pagination.totalPages
  /\ pagination.currentPage = 1

(***************************************************************************)
(* C5: whenever the committed search term changes, currentPage is 1 in the *)
(* state that commit produces, whatever it was before, and the list        *)
(* request issued for the new term is for page 1.                          *)
(***************************************************************************)
C5_CommitResetsPage ==
  [][ /\ debouncedSearchTerm' # debouncedSearchTerm => pagination'.currentPage = 1
      /\ (EffectsStep /\ deps.debouncedSearchTerm # debouncedSearchTerm) =>
           /\ issued' = <<[page |-> 1, search |-> debouncedSearchTerm]>>
           /\ listReqs' = listReqs (+) SetToBag({[page |-> 1, search |-> debouncedSearchTerm]})
    ]_vars

\* a new term was committed from page 2 and its request, for page 1, issued
C5_Witness ==
  /\ lastOp.op = "timer"
  /\ ~EffectsPending
  /\ debouncedSearchTerm # ""
  /\ issued = <<[page |-> 1, search |-> debouncedSearchTerm]>>
  /\ \E req \in BagToSet(listReqs) : req.page = 2

(***************************************************************************)
(* C6 (as stated): every change of debouncedSearchTerm or of currentPage,  *)
(* from whatever cause, triggers a list refetch for the new pair.          *)
(***************************************************************************)
C6_EveryChangeRefetches ==
  [][ (deps.mounted /\ FetchDepsDiffer /\ vars' # vars) =>
        listReqs' = listReqs (+) SetToBag({CurrentRequest})
    ]_vars

(***************************************************************************)
(* C6 (amended): every change of debouncedSearchTerm or of currentPage,    *)
(* from whatever cause, runs the fetch effect before any other event is    *)
(* handled; the effect issues a list request for the new pair when the     *)
(* committed term is non-empty or the live text is empty, and issues none  *)
(* when the committed term is empty and the live text is not.              *)
(***************************************************************************)
C6_ChangeRefetchesUnlessTyping ==
  [][ /\ (debouncedSearchTerm' # debouncedSearchTerm
            \/ pagination'.currentPage # pagination.currentPage) =>
           (deps'.debouncedSearchTerm # debouncedSearchTerm'
              \/ deps'.currentPage # pagination'.currentPage)
      /\ (deps.mounted /\ FetchDepsDiffer /\ vars' # vars) =>
           /\ EffectsStep
           /\ ~(deps'.debouncedSearchTerm # debouncedSearchTerm'
                  \/ deps'.currentPage # pagination'.currentPage)
           /\ UNCHANGED <<pagination, debouncedSearchTerm>>
           /\ IF debouncedSearchTerm # "" \/ searchTerm = ""
                THEN /\ listReqs' = listReqs (+) SetToBag({CurrentRequest})
                     /\ issued' = Append(issued, CurrentRequest)
                     /\ isLoading'
                ELSE listReqs' = listReqs /\ issued' = issued
    ]_vars

\* a list response moved the page and the refetch for the new page was issued
C6_Witness ==
  /\ lastOp.op = "listLoaded"
  /\ ~EffectsPending
  /\ pagination.currentPage = 2
  /\ issued = <<CurrentRequest>>

(***************************************************************************)
(* C7: isLoading is true in every state in which a list request has not    *)
(* yet completed, also when several list requests overlap.                 *)
(***************************************************************************)
C7_LoadingWhileInFlight == BagCardinality(listReqs) > 0 => isLoading

(***************************************************************************)
(* C8: a list fetch that fails leaves customers and pagination as they     *)
(* were, sets pageError to a message and isLoading to false; one that      *)
(* succeeds replaces customers and pagination by the response's and leaves *)
(* pageError null and isLoading false.                                     *)
(***************************************************************************)
C8_SettleOutcome ==
  [][ \A req \in BagToSet(listReqs), r \in ListResponses :
        fetchCustomersSettles(req, r) =>
          IF r.kind = "error" \/ ~r.ok \/ ~r.success
            THEN /\ UNCHANGED <<customers, pagination>>
                 /\ pageError' # NullError
                 /\ isLoading' = FALSE
            ELSE /\ customers' = r.customers
                 /\ pagination' = r.pagination
                 /\ pageError' = NullError
                 /\ isLoading' = FALSE
    ]_vars

(***************************************************************************)
(* C9 (as stated): a second handleViewCustomerDetails(c) with the same     *)
(* customer, while the panel the first call opened is still open, closes   *)
(* the panel, leaves panelKey and selectedCustomer unchanged and issues no *)
(* detail request.                                                         *)
(***************************************************************************)
ViewCallStep == EventStep("viewToggle") \/ EventStep("viewOpen")

C9_SecondCallCloses ==
  [][ (lastOp.op = "viewOpen" /\ isDetailPanelOpen /\ ViewCallStep
         /\ lastOp'.key = lastOp.key) =>
        /\ isDetailPanelOpen' = FALSE
        /\ UNCHANGED <<panelKey, selectedCustomer, detailReqs>>
    ]_vars

(***************************************************************************)
(* C9 (amended): handleViewCustomerDetails(c) called while the panel is    *)
(* open and selectedCustomer is present with the identifier of c closes    *)
(* the panel, leaves panelKey and selectedCustomer unchanged and issues no *)
(* detail request; called while selectedCustomer is absent (the detail     *)
(* response of the first call has not arrived, or failed) or the panel is  *)
(* closed, it opens the panel anew instead.                                *)
(***************************************************************************)
C9_CallOnShownCustomerCloses ==
  [][ ViewCallStep =>
        IF isDetailPanelOpen /\ selectedCustomer._id = lastOp'.key
          THEN /\ lastOp'.op = "viewToggle"
               /\ isDetailPanelOpen' = FALSE
               /\ UNCHANGED <<panelKey, selectedCustomer, detailReqs>>
          ELSE /\ lastOp'.op = "viewOpen"
               /\ isDetailPanelOpen' = TRUE
               /\ panelKey' = panelKey + 1
               /\ selectedCustomer' = NullCustomer
               /\ Len(detailReqs') = Len(detailReqs) + 1
               /\ detailReqs'[Len(detailReqs')].id = lastOp'.key
    ]_vars

\* the second call for the customer the panel shows has closed it
C9_Witness ==
  /\ lastOp.op = "viewToggle"
  /\ lastView.id = lastOp.key
  /\ selectedCustomer._id = lastOp.key
  /\ ~isDetailPanelOpen
  /\ detailReqs = <<>>

(***************************************************************************)
(* C10: handleViewCustomerDetails(d) called while the panel is open on a   *)
(* different customer keeps the panel open, increments panelKey by 1 and   *)
(* sets selectedCustomer to absent until the detail response for d         *)
(* arrives; when it arrives selectedCustomer becomes the fetched record of *)
(* d, or stays absent with an error notification when the fetch failed.    *)
(***************************************************************************)
C10_AbsentUntilDetailArrives ==
  [][ /\ (EventStep("viewOpen") /\ lastView'.switched) =>
           /\ isDetailPanelOpen'
           /\ panelKey' = panelKey + 1
           /\ selectedCustomer' = NullCustomer
      /\ (lastView'.switched /\ \E i \in 1..Len(detailReqs') : detailReqs'[i].latest) =>
           selectedCustomer' = NullCustomer
      /\ (EventStep("detailLoaded") /\ lastOp'.n = 1) => selectedCustomer'._id = lastView.id
      /\ (EventStep("detailFailed") /\ lastOp'.n = 1) =>
           selectedCustomer' = NullCustomer /\ toast'.kind = "error"
    ]_vars

(***************************************************************************)
(* C11: a successful handleGrantMembership(id, barcode) sets               *)
(* selectedCustomer to the entity the server returned and replaces every   *)
(* row of customers whose identifier is id by that entity, leaving every   *)
(* other row, the length and the order of the list as they are, whatever   *)
(* list is in memory when the response arrives; a failed call changes      *)
(* neither selectedCustomer, customers nor panelKey.                       *)
(***************************************************************************)
C11_GrantMergesEntity ==
  [][ \A i \in 1..Len(grantReqs) : \A r \in GrantResponses(grantReqs[i].id) :
        grantMembershipSettles(i, r) =>
          IF r.kind = "json" /\ r.success /\ r.customer # NullCustomer
            THEN /\ selectedCustomer' = r.customer
                 /\ Len(customers') = Len(customers)
                 /\ \A k \in 1..Len(customers) :
                      customers'[k] = IF customers[k]._id = grantReqs[i].id
                                        THEN r.customer ELSE customers[k]
            ELSE UNCHANGED <<selectedCustomer, customers, panelKey>>
    ]_vars

\* a grant for "a" patched the first of two rows and left the row of "b"
C11_Witness ==
  /\ lastOp = Op("grantDone", "a", 0)
  /\ Len(customers) = 2
  /\ customers[1] = selectedCustomer
  /\ customers[1].membershipBarcode = "BC123"
  /\ customers[2] = [_id |-> "b", membershipBarcode |-> ""]

(***************************************************************************)
(* C12: the list request a successful handleDeleteCustomer issues carries  *)
(* the page pagination.currentPage and the search term debouncedSearchTerm *)
(* as they are when the DELETE response arrives, also when goToPage or a   *)
(* search commit happened while the DELETE was in flight.                  *)
(***************************************************************************)
C12_RefreshUsesCurrentPage ==
  [][ EventStep("deleteDone") =>
        /\ issued' = <<CurrentRequest>>
        /\ listReqs' = listReqs (+) SetToBag({CurrentRequest})
    ]_vars

(***************************************************************************)
(* C13: a handleDeleteCustomer call that fails (non-OK status,             *)
(* success=false or network error) produces an error notification, issues  *)
(* no list request and leaves every state field unchanged; a call whose    *)
(* confirmation is declined issues no network request and changes no       *)
(* state.                                                                  *)
(***************************************************************************)
C13_FailedDeleteChangesNothing ==
  [][ /\ \A i \in 1..Len(deleteReqs), r \in DeleteResponses :
           (deleteCustomerSettles(i, r) /\ (r.kind = "error" \/ ~r.ok \/ ~r.success)) =>
             /\ toast'.kind = "error"
             /\ toast'.text # ""
             /\ issued' = <<>>
             /\ UNCHANGED <<listVars, searchVars, panelVars, modalVars, reactVars,
                            listReqs, detailReqs, grantReqs>>
             /\ ~EffectsPending'
      /\ EventStep("deleteDeclined") =>
           /\ UNCHANGED <<listVars, searchVars, panelVars, modalVars, reactVars, netVars>>
           /\ toast' = NoToast
           /\ ~EffectsPending'
    ]_vars

\* a DELETE answered with a non-OK status failed with the list loaded
C13_Witness ==
  /\ lastOp.op = "deleteFailed"
  /\ toast = [kind |-> "error", text |-> "Failed to deactivate customer."]
  /\ customers # <<>>
  /\ deleteReqs = <<>>
  /\ issued = <<>>

(***************************************************************************)
(* C14: handleGrantMembership sets isMembershipUpdating to true when it    *)
(* starts, and isMembershipUpdating is false once the call has completed,  *)
(* on success and on failure alike; every started call eventually          *)
(* completes once its response (or a network error) arrives.               *)
(***************************************************************************)
C14_UpdatingFlagCleared ==
  /\ [][ /\ EventStep("grant") =>
              isMembershipUpdating' /\ Len(grantReqs') = Len(grantReqs) + 1
         /\ (EventStep("grantDone") \/ EventStep("grantFailed")) =>
              ~isMembershipUpdating' /\ Len(grantReqs') = Len(grantReqs) - 1
       ]_vars
  /\ Watched ~> ~Watched

\* a call that failed has completed and the flag is cleared
C14_Witness ==
  /\ lastOp.op = "grantFailed"
  /\ toast.kind = "error"
  /\ ~isMembershipUpdating
  /\ grantReqs = <<>>

(***************************************************************************)
(* C15: overlapping list fetches are not sequenced: every successful       *)
(* response sets customers and pagination, whichever request it answers    *)
(* and whatever was requested since, so the response that arrives last     *)
(* determines them; a state is reachable in which no list request is in    *)
(* flight and customers come from a request whose search term differs from *)
(* debouncedSearchTerm.                                                    *)
(***************************************************************************)
C15_LastResponseWins ==
  [][ \A req \in BagToSet(listReqs), r \in ListResponses :
        (fetchCustomersSettles(req, r) /\ r.kind = "json" /\ r.ok /\ r.success) =>
          /\ customers' = r.customers
          /\ pagination' = r.pagination
          /\ lastOp' = Op("listLoaded", req.search, req.page)
    ]_vars

\* the response to the request for the term "" arrived after the one for "a",
\* the committed term, and nothing is in flight
C15_Witness ==
  /\ lastOp = Op("listLoaded", "", 1)
  /\ debouncedSearchTerm = "a"
  /\ searchTerm = "a"
  /\ customers # <<>>
  /\ listReqs = EmptyBag
  /\ ~EffectsPending
  /\ ~timer.pending

C17_PanelKeyMonotonic ==
  [][ /\ panelKey' >= panelKey
      /\ (EventStep("viewOpen") \/ EventStep("grantDone")) => panelKey' = panelKey + 1
      /\ panelKey' # panelKey => (EventStep("viewOpen") \/ EventStep("grantDone"))
    ]_vars

\* the panel was opened, switched to another row, and a membership granted
\* to the customer it shows
C17_Witness ==
  /\ lastOp.op = "grantDone"
  /\ lastView.switched
  /\ panelKey = 3
  /\ selectedCustomer._id = lastView.id
  /\ isDetailPanelOpen

(***************************************************************************)
(* C18: the very first render triggers a list fetch: from the initial      *)
(* state (searchTerm and debouncedSearchTerm empty, currentPage 1,         *)
(* isLoading true) a list request for page 1 with an empty search term is  *)
(* issued before any user action; and the guard of the fetch effect        *)
(* suppresses a refetch only in states where the committed term is empty   *)
(* while the live term is not.                                             *)
(***************************************************************************)
C18_FirstRenderFetches ==
  [][ /\ ~deps.mounted =>
           /\ searchTerm = "" /\ debouncedSearchTerm = ""
           /\ pagination.currentPage = 1 /\ isLoading
           /\ EffectsStep
           /\ lastOp' = Op("mount", "", 0)
           /\ listReqs = EmptyBag
           /\ listReqs' = SetToBag({[page |-> 1, search |-> ""]})
           /\ issued' = <<[page |-> 1, search |-> ""]>>
           /\ isLoading'
      /\ (EffectsStep /\ (~deps.mounted \/ FetchDepsDiffer)) =>
           (listReqs' = listReqs <=> (debouncedSearchTerm = "" /\ searchTerm # ""))
    ]_vars

\* the effects of the first render have run and its request is in flight,
\* before any event
C18_Witness ==
  /\ lastOp = Op("mount", "", 0)
  /\ deps.mounted
  /\ listReqs = SetToBag({[page |-> 1, search |-> ""]})
  /\ isLoading
  /\ customers = <<>>

(***************************************************************************)
(* C19: the debounce timer resets pagination.currentPage to 1 only when    *)
(* its firing changes debouncedSearchTerm; a firing that commits the value *)
(* already committed (the timer started at mount, or text typed and        *)
(* reverted within the quiet period) leaves currentPage as the last        *)
(* goToPage set it.                                                        *)
(***************************************************************************)
C19_ResetOnlyOnChange ==
  [][ (EventStep("timer") /\ debouncedSearchTerm' = debouncedSearchTerm) =>
        pagination'.currentPage = pagination.currentPage
    ]_vars

(***************************************************************************)
(* C20: in every state where the panel is open, no detail request and no   *)
(* grant request is in flight and selectedCustomer is present,             *)
(* selectedCustomer's identifier is the one passed to the most recent      *)
(* handleViewCustomerDetails call that opened the panel, for every         *)
(* interleaving of detail and grant responses.                             *)
(***************************************************************************)
C20_PanelShowsLastAsked ==
  (isDetailPanelOpen /\ lastView.id # "null" /\ detailReqs = <<>> /\ grantReqs = <<>>
     /\ selectedCustomer # NullCustomer) =>
    selectedCustomer._id = lastView.id

=============================================================================
